---- MODULE Spec2Model ----
(***************************************************************************)
(* A model of pingu's chunk codec (src/src/chunk.rs) and of the command    *)
(* line driver (src/src/main.rs).  ChunkType (chunk_type.rs) and Png       *)
(* (png.rs) are modelled from their description in spec.md.                *)
(*                                                                         *)
(* Four specifications share the module: Spec (the codec on byte           *)
(* buffers), SizeSpec (the length field over payload sizes), PngSpec (the  *)
(* container in memory) and CliSpec (runs of the program on files).        *)
(*                                                                         *)
(* Bytes are integers 0..255 and byte buffers are sequences of bytes.      *)
(* Unsigned machine integers are kept at their width as little-endian      *)
(* tuples of 16-bit digits: a u32 is <<d0, d1>> (value d0 + 65536*d1), a   *)
(* 64-bit usize is <<d0, d1, d2, d3>>.                                     *)
(***************************************************************************)
EXTENDS Integers, Sequences, FiniteSets, TLC

(***************************************************************************)
(* Bounds of the model.                                                    *)
(***************************************************************************)
\* longest payload handed to Chunk::new in the byte-level specification
MaxData == 2

(***************************************************************************)
(* Machine integers.                                                       *)
(***************************************************************************)
Digit == 256 * 256

U32Zero == <<0, 0>>

\* usize value of a small natural number (a buffer length of the model)
UsizeOf(n) == <<n % Digit, n \div Digit, 0, 0>>

\* `x as u32` for a usize x: the low 32 bits
AsU32(x) == <<x[1], x[2]>>

\* `x as usize` for a u32 x: zero extension
AsUsize(x) == <<x[1], x[2], 0, 0>>

\* k + x on usize for a small natural k (no wrap: the callers add 8 or 12 to
\* a zero-extended u32 or to a Vec length)
UsizeAdd(k, x) ==
    LET s1 == x[1] + k
        s2 == x[2] + (s1 \div Digit)
        s3 == x[3] + (s2 \div Digit)
        s4 == x[4] + (s3 \div Digit)
    IN  <<s1 % Digit, s2 % Digit, s3 % Digit, s4 % Digit>>

\* x <= y on usize
UsizeLe(x, y) ==
    IF x[4] # y[4] THEN x[4] < y[4]
    ELSE IF x[3] # y[3] THEN x[3] < y[3]
    ELSE IF x[2] # y[2] THEN x[2] < y[2]
    ELSE x[1] <= y[1]

\* the natural number of a usize known to be at most a buffer length
UsizeNat(x) == x[1] + Digit * x[2]

\* u32::to_be_bytes
ToBeBytesSwapped(x) == <<x[1] % 256, x[1] \div 256, x[2] % 256, x[2] \div 256>>
ToBeBytes(x) == <<x[2] \div 256, x[2] % 256, x[1] \div 256, x[1] % 256>>

\* u32::from_be_bytes of a 4-byte array
FromBeBytes(b) == <<b[3] * 256 + b[4], b[1] * 256 + b[2]>>

(***************************************************************************)
(* crc32fast::hash: the CRC-32 of ISO 3309 / PNG (reflected polynomial     *)
(* EDB88320, initial value and final xor FFFFFFFF), bit by bit.            *)
(***************************************************************************)
RECURSIVE Xor(_, _)
Xor(a, b) ==
    IF a = 0 THEN b
    ELSE IF b = 0 THEN a
    ELSE ((a + b) % 2) + 2 * Xor(a \div 2, b \div 2)

\* a with the bit of weight w flipped, as the change to a
Toggle(a, w) == IF (a \div w) % 2 = 1 THEN 0 - w ELSE w

\* xor with the halves of the polynomial EDB88320: 8320 and EDB8
XorPolyLow(a) == a + Toggle(a, 32) + Toggle(a, 256) + Toggle(a, 512) + Toggle(a, 32768)
XorPolyHigh(a) ==
    a + Toggle(a, 8) + Toggle(a, 16) + Toggle(a, 32) + Toggle(a, 128) + Toggle(a, 256)
      + Toggle(a, 1024) + Toggle(a, 2048) + Toggle(a, 8192) + Toggle(a, 16384)
      + Toggle(a, 32768)

\* one shift of the reflected CRC register c = <<lo, hi>>
CrcShift(c) ==
    LET lo == (c[1] \div 2) + (c[2] % 2) * 32768
        hi == c[2] \div 2
    IN  IF c[1] % 2 = 1 THEN <<XorPolyLow(lo), XorPolyHigh(hi)>>
        ELSE <<lo, hi>>

RECURSIVE CrcShifts(_, _)
CrcShifts(c, k) == IF k = 0 THEN c ELSE CrcShifts(CrcShift(c), k - 1)

\* one byte: xor into the low byte of the register, then eight shifts
CrcByte(c, byte) == CrcShifts(<<Xor(c[1], byte), c[2]>>, 8)

RECURSIVE CrcUpdate(_, _, _)
CrcUpdate(c, bytes, i) ==
    IF i > Len(bytes) THEN c
    ELSE LET n == CrcByte(c, bytes[i])
         \* (n[1] >= 0 always: the test makes TLC evaluate the register
         \* before it takes the next byte)
         IN  IF n[1] >= 0 THEN CrcUpdate(n, bytes, i + 1) ELSE c

Crc32(bytes) ==
    LET c == CrcUpdate(<<65535, 65535>>, bytes, 1)
    IN  <<65535 - c[1], 65535 - c[2]>>

(***************************************************************************)
(* ChunkType (chunk_type.rs): a value holding exactly four bytes.          *)
(* Construction from a byte array accepts any four bytes; construction     *)
(* from text accepts exactly four ASCII letters.                           *)
(***************************************************************************)
IsLetter(b) == (b >= 65 /\ b <= 90) \/ (b >= 97 /\ b <= 122)

\* ChunkType::try_from([u8; 4])
ChunkTypeTryFrom(b) == [ok |-> TRUE, value |-> b]

\* ChunkType::from_str
ChunkTypeFromStr(s) ==
    IF Len(s) = 4 /\ \A i \in 1..Len(s) : IsLetter(s[i])
    THEN [ok |-> TRUE, value |-> s]
    ELSE [ok |-> FALSE, value |-> <<>>]

\* ChunkType::bytes
ChunkTypeBytes(t) == t

\* ChunkType's Display / to_string: the four bytes as characters
ChunkTypeToString(t) == t

(***************************************************************************)
(* Chunk (chunk.rs).                                                       *)
(***************************************************************************)
NoChunk == [length |-> U32Zero, chunk_type |-> <<>>, data |-> <<>>, crc |-> U32Zero]

\* the length field Chunk::new stores for a payload of data_len bytes
NewLengthWithType(data_len) == AsU32(UsizeAdd(4, data_len))
NewLength(data_len) == AsU32(data_len)

\* the checksum Chunk::new stores
NewCrcDataOnly(chunk_type, data) == Crc32(data)
NewCrc(chunk_type, data) == Crc32(ChunkTypeBytes(chunk_type) \o data)

\* Chunk::new
ChunkNew(chunk_type, data) ==
    [length     |-> NewLength(UsizeOf(Len(data))),
     chunk_type |-> chunk_type,
     data       |-> data,
     crc        |-> NewCrc(chunk_type, data)]

\* Chunk::as_bytes
AsBytesLittleEndian(c) ==
    ToBeBytesSwapped(c.length) \o ChunkTypeBytes(c.chunk_type) \o c.data
        \o ToBeBytesSwapped(c.crc)
AsBytes(c) ==
    ToBeBytes(c.length) \o ChunkTypeBytes(c.chunk_type) \o c.data
        \o ToBeBytes(c.crc)

\* String::from_utf8's test: the bytes are well-formed UTF-8
RECURSIVE IsUtf8From(_, _)
IsUtf8From(b, i) ==
    LET n == Len(b) - i + 1
        Cont(j) == b[j] >= 128 /\ b[j] <= 191
    IN  IF n <= 0 THEN TRUE
        ELSE IF b[i] <= 127 THEN IsUtf8From(b, i + 1)
        ELSE IF b[i] >= 194 /\ b[i] <= 223
             THEN n >= 2 /\ Cont(i + 1) /\ IsUtf8From(b, i + 2)
        ELSE IF b[i] >= 224 /\ b[i] <= 239
             THEN /\ n >= 3
                  /\ Cont(i + 1)
                  /\ Cont(i + 2)
                  /\ (b[i] = 224 => b[i + 1] >= 160)
                  /\ (b[i] = 237 => b[i + 1] <= 159)
                  /\ IsUtf8From(b, i + 3)
        ELSE IF b[i] >= 240 /\ b[i] <= 244
             THEN /\ n >= 4
                  /\ Cont(i + 1)
                  /\ Cont(i + 2)
                  /\ Cont(i + 3)
                  /\ (b[i] = 240 => b[i + 1] >= 144)
                  /\ (b[i] = 244 => b[i + 1] <= 143)
                  /\ IsUtf8From(b, i + 4)
        ELSE FALSE

IsUtf8(b) == IsUtf8From(b, 1)

\* Chunk::data_as_string
DataAsString(c) ==
    IF IsUtf8(c.data) THEN [ok |-> TRUE, text |-> c.data]
    ELSE [ok |-> FALSE, text |-> <<>>]

\* what a println! leaves on standard output
Printed(kind, c, t, p) == [kind |-> kind, chunk |-> c, text |-> t, png |-> p]
Nothing == Printed("", NoChunk, <<>>, <<>>)

\* <Chunk as Display>::fmt: the type, length, data as text and crc; the
\* unwrap of data_as_string panics when the data is not UTF-8
ChunkDisplay(c) ==
    IF DataAsString(c).ok
    THEN [tag |-> "Ok", printed |-> Printed("chunk", c, DataAsString(c).text, <<>>)]
    ELSE [tag |-> "Panic", printed |-> Nothing]

\* results of Chunk::try_from; a panic is the third outcome of a call
Ok(c) == [tag |-> "Ok", err |-> "", arg |-> 0, chunk |-> c]
Err(e, n) == [tag |-> "Err", err |-> e, arg |-> n, chunk |-> NoChunk]
Panic == [tag |-> "Panic", err |-> "", arg |-> 0, chunk |-> NoChunk]
NoOutcome == [tag |-> "", err |-> "", arg |-> 0, chunk |-> NoChunk]

\* the guard of chunk.rs:77
TooShortHeaderOnly(value) == Len(value) < 8
TooShort(value) == Len(value) < 12

\* the checksum comparison of chunk.rs:101
CrcMismatchNever(crc, chunk_type_bytes, data) == FALSE
CrcMismatch(crc, chunk_type_bytes, data) == crc # Crc32(chunk_type_bytes \o data)

\* <Chunk as TryFrom<&[u8]>>::try_from
TryFrom(value) ==
    IF TooShort(value) THEN Err("InvalidLength", Len(value))
    ELSE
      LET length == FromBeBytes(SubSeq(value, 1, 4))
          chunk_type_bytes == SubSeq(value, 5, 8)
          parsed == ChunkTypeTryFrom(chunk_type_bytes)
          end == UsizeAdd(8, AsUsize(length))
      IN  IF ~parsed.ok THEN Err("InvalidChunkType", 0)
          \* value[8..8 + length]: a slice end past the buffer panics
          ELSE IF ~UsizeLe(end, UsizeOf(Len(value))) THEN Panic
          ELSE
            LET data == SubSeq(value, 9, UsizeNat(end))
                tail == SubSeq(value, UsizeNat(end) + 1, Len(value))
            IN  \* value[8 + length..] must be exactly four bytes
                IF Len(tail) # 4 THEN Err("ConversionError", 0)
                ELSE IF CrcMismatch(FromBeBytes(tail), chunk_type_bytes, data)
                     THEN Err("InvalidCrc", 0)
                ELSE Ok([length     |-> length,
                         chunk_type |-> parsed.value,
                         data       |-> data,
                         crc        |-> FromBeBytes(tail)])

(***************************************************************************)
(* The byte-level specification: a chunk is built, serialised, possibly    *)
(* damaged in transit, decoded and serialised again.                       *)
(***************************************************************************)
VARIABLES chunk, wire, tamper, outcome, again

codecVars == <<chunk, wire, tamper, outcome, again>>

\* payload bytes and chunk types the inputs are drawn from
DataBytes == {0, 65, 255}
TypeCodes == {<<82, 117, 83, 116>>, <<116, 101, 83, 116>>}

RECURSIVE SeqsUpTo(_, _)
SeqsUpTo(S, n) ==
    IF n = 0 THEN {<<>>}
    ELSE LET shorter == SeqsUpTo(S, n - 1)
         IN  shorter \cup {Append(s, x) : s \in {t \in shorter : Len(t) = n - 1}, x \in S}

Payloads == SeqsUpTo(DataBytes, MaxData)

\* length fields a damaged buffer may declare
DeclaredLengths == {<<0, 0>>, <<1, 0>>, <<5, 0>>, <<0, 1>>, <<0, 32768>>, <<65535, 65535>>}

Pow2(k) == 2 ^ k

FlipBit(bytes, i, k) == [bytes EXCEPT ![i] = bytes[i] + Toggle(bytes[i], Pow2(k))]

\* the region of a serialised chunk that byte index i (1-based) lies in
Region(bytes, i) ==
    IF i <= 4 THEN "length"
    ELSE IF i <= 8 THEN "type"
    ELSE IF i <= Len(bytes) - 4 THEN "data"
    ELSE "crc"

CodecInit ==
    /\ chunk = NoChunk
    /\ wire = <<>>
    /\ tamper = "unbuilt"
    /\ outcome = NoOutcome
    /\ again = <<>>

\* Chunk::new(chunk_type, data)
New ==
    /\ tamper = "unbuilt"
    /\ \E t \in TypeCodes, d \in Payloads :
          chunk' = ChunkNew(ChunkTypeTryFrom(t).value, d)
    /\ tamper' = "built"
    /\ UNCHANGED <<wire, outcome, again>>

\* chunk.as_bytes()
Serialize ==
    /\ tamper = "built"
    /\ wire' = AsBytes(chunk)
    /\ tamper' = "none"
    /\ UNCHANGED <<chunk, outcome, again>>

\* one bit of the serialised chunk is flipped
Flip ==
    /\ tamper = "none"
    /\ outcome = NoOutcome
    /\ \E i \in 1..Len(wire), k \in 0..7 :
          /\ wire' = FlipBit(wire, i, k)
          /\ tamper' = Region(wire, i)
    /\ UNCHANGED <<chunk, outcome, again>>

\* the buffer is cut short
Truncate ==
    /\ tamper = "none"
    /\ outcome = NoOutcome
    /\ \E n \in 0..(Len(wire) - 1) : wire' = SubSeq(wire, 1, n)
    /\ tamper' = "cut"
    /\ UNCHANGED <<chunk, outcome, again>>

\* the length field is overwritten
Redeclare ==
    /\ tamper = "none"
    /\ outcome = NoOutcome
    /\ \E l \in DeclaredLengths :
          /\ l # chunk.length
          /\ wire' = ToBeBytes(l) \o SubSeq(wire, 5, Len(wire))
    /\ tamper' = "declared"
    /\ UNCHANGED <<chunk, outcome, again>>

\* bytes follow the chunk in the buffer
Trail ==
    /\ tamper = "none"
    /\ outcome = NoOutcome
    /\ \E b \in DataBytes : wire' = Append(wire, b)
    /\ tamper' = "trailing"
    /\ UNCHANGED <<chunk, outcome, again>>

\* one bit of the type or data region is flipped and the trailing checksum
\* is recomputed over the changed bytes: a buffer no Chunk::new call of this
\* run produced, and one that try_from accepts
Reseal ==
    /\ tamper = "none"
    /\ outcome = NoOutcome
    /\ \E i \in 5..(Len(wire) - 4), k \in 0..7 :
          LET body == SubSeq(FlipBit(wire, i, k), 1, Len(wire) - 4)
          IN  wire' = body \o ToBeBytes(Crc32(SubSeq(body, 5, Len(body))))
    /\ tamper' = "resealed"
    /\ UNCHANGED <<chunk, outcome, again>>

\* Chunk::try_from(wire)
Decode ==
    /\ tamper \notin {"unbuilt", "built"}
    /\ outcome = NoOutcome
    /\ outcome' = TryFrom(wire)
    /\ UNCHANGED <<chunk, wire, tamper, again>>

\* as_bytes() of the decoded chunk
Reencode ==
    /\ outcome.tag = "Ok"
    /\ again = <<>>
    /\ again' = AsBytes(outcome.chunk)
    /\ UNCHANGED <<chunk, wire, tamper, outcome>>

(***************************************************************************)
(* The size-level specification: Chunk::new on payloads of every size a    *)
(* Vec<u8> can have on a 64-bit target, each payload given by its size.    *)
(***************************************************************************)
VARIABLES data_len, length, sized

sizeVars == <<data_len, length, sized>>

\* data.len() of the payloads, as 16-bit digits: sizes from 0 to a little
\* under 12 GiB, on both sides of the 2^32 bytes a u32 can count
SizeDigits == {0, 1, 2, 42, 32768, 65535}
PayloadSizes ==
    {<<d0, d1, d2, 0>> : d0 \in SizeDigits, d1 \in SizeDigits, d2 \in {0, 1, 2}}

SizeInit ==
    /\ data_len = UsizeOf(0)
    /\ length = U32Zero
    /\ sized = FALSE

\* Chunk::new on a payload of n bytes: the length field it stores
NewSized ==
    /\ \E n \in PayloadSizes :
          /\ data_len' = n
          /\ length' = NewLength(n)
    /\ sized' = TRUE

(***************************************************************************)
(* Png (png.rs): the signature and an ordered sequence of chunks.  A Png   *)
(* value is modelled as the sequence of its chunks.                        *)
(***************************************************************************)
\* Png::STANDARD_HEADER
PngSignature == <<137, 80, 78, 71, 13, 10, 26, 10>>

PngOk(p) == [tag |-> "Ok", err |-> "", png |-> p]
PngErr(e) == [tag |-> "Err", err |-> e, png |-> <<>>]
PngPanic == [tag |-> "Panic", err |-> "", png |-> <<>>]

\* the chunks of a buffer from byte `cursor` on: each record takes its
\* 12 + declared length bytes (what is left of the buffer when that is less)
RECURSIVE DecodeChunks(_, _, _)
DecodeChunks(bytes, cursor, acc) ==
    IF cursor > Len(bytes) THEN PngOk(acc)
    ELSE
      LET rest == SubSeq(bytes, cursor, Len(bytes))
          total == IF Len(rest) < 12 THEN UsizeOf(Len(rest))
                   ELSE UsizeAdd(12, AsUsize(FromBeBytes(SubSeq(rest, 1, 4))))
          record == IF UsizeLe(total, UsizeOf(Len(rest)))
                    THEN SubSeq(rest, 1, UsizeNat(total))
                    ELSE rest
          r == TryFrom(record)
      IN  IF r.tag = "Panic" THEN PngPanic
          ELSE IF r.tag = "Err" THEN PngErr(r.err)
          ELSE DecodeChunks(bytes, cursor + Len(record), Append(acc, r.chunk))

\* <Png as TryFrom<&[u8]>>::try_from
PngTryFrom(bytes) ==
    IF Len(bytes) < 8 \/ SubSeq(bytes, 1, 8) # PngSignature
    THEN PngErr("SignatureMismatch")
    ELSE DecodeChunks(bytes, 9, <<>>)

RECURSIVE ChunksAsBytes(_, _)
ChunksAsBytes(p, i) ==
    IF i > Len(p) THEN <<>> ELSE AsBytes(p[i]) \o ChunksAsBytes(p, i + 1)

\* Png::as_bytes
PngAsBytes(p) == PngSignature \o ChunksAsBytes(p, 1)

\* Png::append_chunk
AppendChunk(p, c) == Append(p, c)

\* positions of the chunks whose type reads as the text t
Matches(p, t) == {i \in 1..Len(p) : ChunkTypeToString(p[i].chunk_type) = t}

FirstMatch(p, t) == CHOOSE i \in Matches(p, t) : \A j \in Matches(p, t) : i <= j

\* Png::chunk_by_type: the first chunk of the type, or none
ChunkByType(p, t) ==
    IF Matches(p, t) = {} THEN [some |-> FALSE, chunk |-> NoChunk]
    ELSE [some |-> TRUE, chunk |-> p[FirstMatch(p, t)]]

\* Png::remove_chunk: removes and returns the first chunk of the type
RemoveChunkKeeping(p, t) ==
    IF Matches(p, t) = {}
    THEN [tag |-> "Err", err |-> "ChunkNotFound", chunk |-> NoChunk, png |-> p]
    ELSE [tag |-> "Ok", err |-> "", chunk |-> p[FirstMatch(p, t)], png |-> p]
RemoveChunk(p, t) ==
    IF Matches(p, t) = {}
    THEN [tag |-> "Err", err |-> "ChunkNotFound", chunk |-> NoChunk, png |-> p]
    ELSE LET i == FirstMatch(p, t)
         IN  [tag |-> "Ok", err |-> "", chunk |-> p[i],
              png |-> SubSeq(p, 1, i - 1) \o SubSeq(p, i + 1, Len(p))]

(***************************************************************************)
(* The container specification: a container holding some chunks gets a     *)
(* chunk appended, is asked for a chunk by type, and has chunks removed    *)
(* by type twice.                                                          *)
(***************************************************************************)
VARIABLES png, step, held, added, found, removed, second

pngVars == <<png, step, held, added, found, removed, second>>

\* most chunks a container holds before the append
MaxHeld == 2

\* the chunks containers are made of: two types, and two payloads of a type
Letters == {<<82, 117, 83, 116>>, <<116, 101, 83, 116>>}
ContainerChunks ==
    {ChunkNew(ChunkTypeFromStr(<<82, 117, 83, 116>>).value, <<>>),
     ChunkNew(ChunkTypeFromStr(<<116, 101, 83, 116>>).value, <<>>),
     ChunkNew(ChunkTypeFromStr(<<116, 101, 83, 116>>).value, <<65>>)}

NoRemoval == [tag |-> "", err |-> "", chunk |-> NoChunk, png |-> <<>>]
NoLookup == [some |-> FALSE, chunk |-> NoChunk]

PngIdle ==
    /\ png = <<>>
    /\ step = "idle"
    /\ held = <<>>
    /\ added = NoChunk
    /\ found = [type |-> <<>>, result |-> NoLookup]
    /\ removed = [type |-> <<>>, result |-> NoRemoval]
    /\ second = [type |-> <<>>, result |-> NoRemoval]

PngInit ==
    /\ png \in SeqsUpTo(ContainerChunks, MaxHeld)
    /\ step = "held"
    /\ held = png
    /\ added = NoChunk
    /\ found = [type |-> <<>>, result |-> NoLookup]
    /\ removed = [type |-> <<>>, result |-> NoRemoval]
    /\ second = [type |-> <<>>, result |-> NoRemoval]

\* png.append_chunk(c)
DoAppend ==
    /\ step = "held"
    /\ \E c \in ContainerChunks :
          /\ png' = AppendChunk(png, c)
          /\ added' = c
    /\ step' = "appended"
    /\ UNCHANGED <<held, found, removed, second>>

\* png.chunk_by_type(t)
DoLookup ==
    /\ step = "appended"
    /\ \E t \in Letters : found' = [type |-> t, result |-> ChunkByType(png, t)]
    /\ step' = "looked"
    /\ UNCHANGED <<png, held, added, removed, second>>

\* png.remove_chunk(t)
DoRemove ==
    /\ step = "looked"
    /\ \E t \in Letters :
          LET r == RemoveChunk(png, t)
          IN  /\ removed' = [type |-> t, result |-> r]
              /\ png' = r.png
    /\ step' = "removed"
    /\ UNCHANGED <<held, added, found, second>>

\* png.remove_chunk(t) once more
DoRemoveAgain ==
    /\ step = "removed"
    /\ \E t \in Letters :
          LET r == RemoveChunk(png, t)
          IN  /\ second' = [type |-> t, result |-> r]
              /\ png' = r.png
    /\ step' = "done"
    /\ UNCHANGED <<held, added, found, removed>>

(***************************************************************************)
(* The command line (main.rs): each action is one run of the program on    *)
(* the files of a directory.                                               *)
(***************************************************************************)
VARIABLES files, run, runs

cliVars == <<files, run, runs>>

\* runs of the program in one behaviour
MaxRuns == 2

Paths == {"in.png", "out.png"}

File(bytes) == [exists |-> TRUE, bytes |-> bytes]
Missing == [exists |-> FALSE, bytes |-> <<>>]

\* <Png as Display>::fmt: the chunks of the container, summarised
PngDisplay(p) == [tag |-> "Ok", printed |-> Printed("png", NoChunk, <<>>, p)]

\* the record of a run: the command line, how the process ended and what
\* it printed
Ran(cmd, path, type, message, output, exit, err, printed) ==
    [cmd |-> cmd, png |-> path, type |-> type, message |-> message,
     output |-> output, exit |-> exit, err |-> err, printed |-> printed]
NotRun == Ran("", "", <<>>, <<>>, "", "", "", Nothing)

\* std::fs::read followed by Png::try_from, as every command begins
ReadPng(f, path) ==
    IF ~f[path].exists THEN PngErr("Io") ELSE PngTryFrom(f[path].bytes)

\* chunk types and messages given on the command line
Messages == {<<65>>}

\* payloads of the chunks of the input files: empty, text, not UTF-8
FileChunks ==
    {ChunkNew(ChunkTypeFromStr(<<82, 117, 83, 116>>).value, <<>>),
     ChunkNew(ChunkTypeFromStr(<<116, 101, 83, 116>>).value, <<65>>),
     ChunkNew(ChunkTypeFromStr(<<116, 101, 83, 116>>).value, <<255>>)}

\* the input file: a well-formed container of up to two chunks, one with a
\* damaged signature, one whose last checksum byte is damaged, or none
WellFormed == {PngAsBytes(p) : p \in SeqsUpTo(FileChunks, 2)}
OneChunk == {b \in WellFormed : Len(b) > 8 /\ Len(b) <= 21}
InputFiles ==
    {File(b) : b \in WellFormed}
      \cup {File(FlipBit(b, 1, 0)) : b \in OneChunk}
      \cup {File(FlipBit(b, Len(b), 0)) : b \in OneChunk}
      \cup {File(<<>>), Missing}

CliInit ==
    /\ files \in {[p \in Paths |-> IF p = "in.png" THEN f ELSE Missing] : f \in InputFiles}
    /\ run = NotRun
    /\ runs = 0

CliIdle ==
    /\ files = [p \in Paths |-> Missing]
    /\ run = NotRun
    /\ runs = 0

\* what the encode command writes: nothing without an output path, the
\* container bytes at the output path with one
EncodeFiles(f, path, output, bytes) ==
    IF output = "" THEN f ELSE [f EXCEPT ![output] = File(bytes)]

\* the container the encode command serialises
EncodePng(p, c) == AppendChunk(p, c)

\* pingu encode --png path --message m --chunk-type t [--output o]
CmdEncode ==
    /\ runs < MaxRuns
    /\ \E path \in Paths, m \in Messages, t \in Letters, output \in Paths \cup {""} :
          LET chunk_type == ChunkTypeFromStr(t).value
              new == ChunkNew(chunk_type, m)
              read == ReadPng(files, path)
              p == EncodePng(read.png, new)
              shown == PngDisplay(p)
          IN  IF read.tag # "Ok"
              THEN /\ run' = Ran("encode", path, t, m, output, read.tag, read.err, Nothing)
                   /\ files' = files
              ELSE /\ files' = EncodeFiles(files, path, output, PngAsBytes(p))
                   /\ run' = Ran("encode", path, t, m, output, "Ok", "",
                                 IF output = "" THEN shown.printed ELSE Nothing)
    /\ runs' = runs + 1

\* pingu decode --png path --chunk-type t
CmdDecode ==
    /\ runs < MaxRuns
    /\ \E path \in Paths, t \in Letters :
          LET chunk_type == ChunkTypeFromStr(t).value
              read == ReadPng(files, path)
              hit == ChunkByType(read.png, ChunkTypeToString(chunk_type))
              message == DataAsString(hit.chunk)
          IN  run' =
                IF read.tag # "Ok"
                THEN Ran("decode", path, t, <<>>, "", read.tag, read.err, Nothing)
                ELSE IF ~hit.some
                THEN Ran("decode", path, t, <<>>, "", "Ok", "",
                         Printed("notfound", NoChunk, <<>>, <<>>))
                ELSE IF ~message.ok
                THEN Ran("decode", path, t, <<>>, "", "Err", "FromUtf8Error", Nothing)
                ELSE Ran("decode", path, t, <<>>, "", "Ok", "",
                         Printed("message", NoChunk, message.text, <<>>))
    /\ files' = files
    /\ runs' = runs + 1

\* what the remove command leaves on disk: it writes nothing
RemoveFilesSaved(f, path, remaining) == [f EXCEPT ![path] = File(PngAsBytes(remaining))]
RemoveFiles(f, path, remaining) == f

\* pingu remove --png path --chunk-type t
CmdRemove ==
    /\ runs < MaxRuns
    /\ \E path \in Paths, t \in Letters :
          LET chunk_type == ChunkTypeFromStr(t).value
              read == ReadPng(files, path)
              removed_chunk == RemoveChunk(read.png, ChunkTypeToString(chunk_type))
              shown == ChunkDisplay(removed_chunk.chunk)
          IN  IF read.tag # "Ok"
              THEN /\ run' = Ran("remove", path, t, <<>>, "", read.tag, read.err, Nothing)
                   /\ files' = files
              ELSE IF removed_chunk.tag # "Ok"
              THEN /\ run' = Ran("remove", path, t, <<>>, "", "Err", removed_chunk.err, Nothing)
                   /\ files' = files
              ELSE /\ run' = Ran("remove", path, t, <<>>, "",
                                 shown.tag, "", shown.printed)
                   /\ files' = RemoveFiles(files, path, removed_chunk.png)
    /\ runs' = runs + 1

\* pingu print --png path
CmdPrint ==
    /\ runs < MaxRuns
    /\ \E path \in Paths :
          LET read == ReadPng(files, path)
              shown == PngDisplay(read.png)
          IN  run' =
                IF read.tag # "Ok"
                THEN Ran("print", path, <<>>, <<>>, "", read.tag, read.err, Nothing)
                ELSE Ran("print", path, <<>>, <<>>, "", shown.tag, "", shown.printed)
    /\ files' = files
    /\ runs' = runs + 1

\* pingu without a command
CmdNone ==
    /\ runs < MaxRuns
    /\ run' = Ran("none", "", <<>>, <<>>, "", "Ok", "",
                  Printed("nocommand", NoChunk, <<>>, <<>>))
    /\ files' = files
    /\ runs' = runs + 1

(***************************************************************************)
(* Specifications.                                                         *)
(***************************************************************************)
vars == <<codecVars, sizeVars, pngVars, cliVars>>

Init == CodecInit /\ SizeInit /\ PngIdle /\ CliIdle

CodecFrame == UNCHANGED <<sizeVars, pngVars, cliVars>>

Next ==
    \/ New /\ CodecFrame
    \/ Serialize /\ CodecFrame
    \/ Flip /\ CodecFrame
    \/ Truncate /\ CodecFrame
    \/ Redeclare /\ CodecFrame
    \/ Trail /\ CodecFrame
    \/ Reseal /\ CodecFrame
    \/ Decode /\ CodecFrame
    \/ Reencode /\ CodecFrame

Spec == Init /\ [][Next]_vars

SizeStep == NewSized /\ UNCHANGED <<codecVars, pngVars, cliVars>>

SizeSpec == Init /\ [][SizeStep]_vars

PngStart == CodecInit /\ SizeInit /\ PngInit /\ CliIdle

PngFrame == UNCHANGED <<codecVars, sizeVars, cliVars>>

PngStep ==
    \/ DoAppend /\ PngFrame
    \/ DoLookup /\ PngFrame
    \/ DoRemove /\ PngFrame
    \/ DoRemoveAgain /\ PngFrame

PngSpec == PngStart /\ [][PngStep]_vars

CliStart == CodecInit /\ SizeInit /\ PngIdle /\ CliInit

CliFrame == UNCHANGED <<codecVars, sizeVars, pngVars>>

CliStep ==
    \/ CmdEncode /\ CliFrame
    \/ CmdDecode /\ CliFrame
    \/ CmdRemove /\ CliFrame
    \/ CmdPrint /\ CliFrame
    \/ CmdNone /\ CliFrame

CliSpec == CliStart /\ [][CliStep]_vars

(***************************************************************************)
(* Properties of the codec, checked under Spec.                            *)
(***************************************************************************)
Decoded == outcome # NoOutcome

\* what the length field of the buffer declares, against the bytes that
\* follow the 8-byte header
DeclaresTooMuch(value) ==
    ~UsizeLe(AsUsize(FromBeBytes(SubSeq(value, 1, 4))), UsizeOf(Len(value) - 8))

\* C1: decoding the as_bytes() of a chunk built by Chunk::new succeeds and
\* yields the same chunk type, data, length and crc.
RoundTrip ==
    (tamper = "none" /\ Decoded) =>
        /\ outcome.tag = "Ok"
        /\ outcome.chunk.chunk_type = chunk.chunk_type
        /\ outcome.chunk.data = chunk.data
        /\ outcome.chunk.length = chunk.length
        /\ outcome.chunk.crc = chunk.crc

RoundTripWitness ==
    /\ tamper = "none"
    /\ outcome.tag = "Ok"
    /\ Len(chunk.data) > 0
    /\ outcome.chunk.data = chunk.data

\* C2: decoding a buffer of at least 12 bytes whose length field declares
\* more than the bytes after the header returns an error value (it does not
\* abort).
OverlongReturnsError ==
    (Decoded /\ Len(wire) >= 12 /\ DeclaresTooMuch(wire)) => outcome.tag = "Err"

\* C3: after one bit of the type or data region of a serialised chunk is
\* flipped, decoding fails with InvalidCrc.
FlipFailsCrc ==
    (tamper \in {"type", "data"} /\ Decoded) => outcome = Err("InvalidCrc", 0)

FlipFailsCrcWitness ==
    /\ tamper = "type"
    /\ \E i \in 5..8 : ~IsLetter(wire[i])
    /\ outcome = Err("InvalidCrc", 0)

\* C5: the crc of every chunk, built or decoded, is the CRC-32 of its type
\* bytes followed by its data.
CrcOf(c) == Crc32(ChunkTypeBytes(c.chunk_type) \o c.data)

CrcInvariant ==
    /\ chunk # NoChunk => chunk.crc = CrcOf(chunk)
    /\ outcome.tag = "Ok" => outcome.chunk.crc = CrcOf(outcome.chunk)

CrcInvariantWitness ==
    /\ tamper = "resealed"
    /\ outcome.tag = "Ok"
    /\ outcome.chunk.crc # chunk.crc
    /\ outcome.chunk.crc = CrcOf(outcome.chunk)

\* C6: as_bytes() of a chunk that try_from returned is the decoded buffer,
\* byte for byte, 12 + data length bytes long.
ReencodeIsInput ==
    again # <<>> =>
        /\ again = wire
        /\ Len(again) = 12 + Len(outcome.chunk.data)

ReencodeIsInputWitness ==
    /\ tamper = "resealed"
    /\ again = wire
    /\ Len(outcome.chunk.data) > 0

\* C7: decoding a buffer shorter than 12 bytes returns InvalidLength with
\* the buffer length, and no chunk.
ShortIsInvalidLength ==
    (Decoded /\ Len(wire) < 12) =>
        /\ outcome = Err("InvalidLength", Len(wire))
        /\ outcome.chunk = NoChunk

ShortIsInvalidLengthWitness ==
    /\ Len(wire) = 11
    /\ outcome = Err("InvalidLength", 11)

(***************************************************************************)
(* Properties of the length field.                                         *)
(***************************************************************************)
\* C4: every chunk's length equals the number of bytes of its data, for
\* every payload size (checked under SizeSpec for Chunk::new).
LengthIsDataLen == sized => AsUsize(length) = data_len

\* the same for the chunks of the byte-level specification
LengthIsDataLenBytes ==
    /\ chunk # NoChunk => AsUsize(chunk.length) = UsizeOf(Len(chunk.data))
    /\ outcome.tag = "Ok" =>
          AsUsize(outcome.chunk.length) = UsizeOf(Len(outcome.chunk.data))

(***************************************************************************)
(* Properties of the container, checked under PngSpec.                     *)
(***************************************************************************)
TypeOf(c) == ChunkTypeToString(c.chunk_type)

\* the lookup, the removal and the second removal, each when it was made
\* with the type of the appended chunk
LookupReturnsAdded ==
    (step \in {"looked", "removed", "done"} /\ found.type = TypeOf(added)) =>
        found.result = [some |-> TRUE, chunk |-> added]

RemoveReturnsAdded ==
    (step \in {"removed", "done"} /\ removed.type = TypeOf(added)) =>
        /\ removed.result.tag = "Ok"
        /\ removed.result.chunk = added

SecondRemoveFails ==
    (step = "done" /\ removed.type = TypeOf(added)
                   /\ second.type = TypeOf(added)) =>
        /\ second.result.tag = "Err"
        /\ second.result.err = "ChunkNotFound"

\* C8 as stated: for a container holding any chunks, after append_chunk(c)
\* with c of type T, chunk_by_type(T) returns c, one remove_chunk(T)
\* removes and returns c, and a second remove_chunk(T) fails with
\* ChunkNotFound.
AppendLookupRemove ==
    LookupReturnsAdded /\ RemoveReturnsAdded /\ SecondRemoveFails

\* C8 as amended: the same for a container that holds no chunk of type T
\* before the append.
AppendLookupRemoveFresh ==
    Matches(held, TypeOf(added)) = {} => AppendLookupRemove

AppendLookupRemoveFreshWitness ==
    /\ step = "done"
    /\ Len(held) > 0
    /\ Matches(held, TypeOf(added)) = {}
    /\ found.result = [some |-> TRUE, chunk |-> added]
    /\ removed.result.chunk = added
    /\ second.type = TypeOf(added)
    /\ second.result.err = "ChunkNotFound"
    /\ png = held

(***************************************************************************)
(* Properties of the command line, checked under CliSpec.                  *)
(***************************************************************************)
\* the container of the file the last run was given, as it is on disk now
OnDisk == ReadPng(files, run.png)

Reads == run.cmd \in {"decode", "remove", "print"}

\* C9: every failure of a command is a returned error with its message,
\* never a panic; a lookup miss of decode alone is a success, printing
\* "Chunk not found".
ErrorsAreReturned ==
    /\ run.exit # "Panic"
    /\ run.exit = "Err" => run.err # ""
    /\ (Reads /\ OnDisk.tag # "Ok") => (run.exit = "Err" /\ run.err = OnDisk.err)
    /\ (Reads /\ OnDisk.tag = "Ok" /\ run.cmd # "print") =>
          LET hit == ChunkByType(OnDisk.png, run.type)
          IN  /\ (run.cmd = "remove" /\ ~hit.some) =>
                    (run.exit = "Err" /\ run.err = "ChunkNotFound")
              /\ (run.cmd = "decode" /\ ~hit.some) =>
                    (run.exit = "Ok" /\ run.printed.kind = "notfound")
              /\ (hit.some /\ ~IsUtf8(hit.chunk.data)) => run.exit = "Err"

\* C10: remove, decode and print write no file, and after a successful
\* remove the input file still holds the removed chunk; encode writes only
\* with an output path, and then only that path, which gets the bytes of
\* the input container followed by the new chunk.
OnlyEncodeWrites ==
    [][ /\ run'.cmd \in {"remove", "decode", "print", "none"} => files' = files
        /\ (run'.cmd = "remove" /\ run'.exit = "Ok") =>
              ChunkByType(ReadPng(files', run'.png).png, run'.type)
                  = [some |-> TRUE, chunk |-> run'.printed.chunk]
        /\ run'.cmd = "encode" =>
              files' =
                IF run'.output = "" \/ run'.exit # "Ok" THEN files
                ELSE [files EXCEPT ![run'.output] =
                        File(files[run'.png].bytes
                               \o AsBytes(ChunkNew(ChunkTypeFromStr(run'.type).value,
                                                    run'.message)))]
      ]_vars

OnlyEncodeWritesWitness ==
    /\ run.cmd = "remove"
    /\ run.exit = "Ok"
    /\ run.png = "out.png"
    /\ files["out.png"].bytes = files["in.png"].bytes \o AsBytes(run.printed.chunk)
    /\ Len(files["in.png"].bytes) > 8

====
